---- MODULE Spec2Model ----
(***************************************************************************)
(* Model of src/main.cpp: a host program that builds a normalised 2D       *)
(* Gaussian kernel, sets up an OpenCL context, program, kernel, images,    *)
(* buffer and queue, enqueues one dispatch, reads the result back, writes  *)
(* output.ppm and releases the device objects.                             *)
(*                                                                         *)
(* Numbers: kernel_elem (float) and double values are modelled in fixed    *)
(* point.  gaussian() returns a multiple of 1/GaussScale, a product of two *)
(* gaussians is exact at 1/GaussScale^2, and a normalised weight is        *)
(* rounded to the nearest multiple of 1/ElemScale (2^-24, the spacing of   *)
(* floats just below 1, so never finer than the float the code stores).    *)
(***************************************************************************)
EXTENDS Integers, Sequences, FiniteSets, TLC

\* ------------------------------------------------------------------ bounds

\* Largest filter radius given on the command line.
MaxRadius == 3
\* Largest number of platforms / devices the environment reports.
MaxPlatforms == 1
MaxDevices == 1
\* Largest number of pixels of a buffer in the channel round trip.
MaxPixels == 2

\* --------------------------------------------------------------- constants

CL_SUCCESS == 0
\* Two non-success statuses a device call may return
\* (CL_OUT_OF_RESOURCES, CL_OUT_OF_HOST_MEMORY).
ErrorCodes == {-5, -6}
Status == {CL_SUCCESS} \cup ErrorCodes

\* Values an uninitialised int may hold when it is read.
Indeterminate == {-1, 0, 1, 255}

GaussScale == 10 ^ 3
ElemScale == 2 ^ 24

\* ------------------------------------------------------- KernelBuilder

\* Scale * exp(-p/q) for 0 <= p/q, by the alternating Taylor series, each
\* term computed from the one before; n is the index of the term `term`.
RECURSIVE ExpSeries(_, _, _, _, _)
ExpSeries(p, q, n, term, acc) ==
    IF term = 0 \/ n > 24 THEN acc
    ELSE LET next == (term * p) \div (q * (n + 1))
         IN ExpSeries(p, q, n + 1, next,
                      IF n % 2 = 0 THEN acc - next ELSE acc + next)

ExpNeg(p, q) == ExpSeries(p, q, 0, GaussScale, GaussScale)

\* sigma is the rational sigma.num / sigma.den.
\* a = (x - mu) / sigma; exp(-0.5 * a * a) = exp(-((x-mu)*den)^2 / (2*num^2)).
gaussian(x, mu, sigma) ==
    LET d == (x - mu) * sigma.den
    IN ExpNeg(d * d, 2 * sigma.num * sigma.num)

RECURSIVE SumSeq(_)
SumSeq(s) == IF s = <<>> THEN 0 ELSE Head(s) + SumSeq(Tail(s))

\* The sum of all cells (sum += x in the fill loop).
KernelSumFirstRowOnly(raw) == SumSeq(raw[1])
KernelSum(raw) == SumSeq([row \in 1..Len(raw) |-> SumSeq(raw[row])])

\* x / sum rounded to the nearest multiple of 1/ElemScale, by binary long
\* division (rem < sum throughout, so 2 * rem stays in range).
RECURSIVE DivBits(_, _, _, _)
DivBits(rem, sum, bits, acc) ==
    IF bits = 0 THEN (IF 2 * rem >= sum THEN acc + 1 ELSE acc)
    ELSE IF 2 * rem >= sum
         THEN DivBits(2 * rem - sum, sum, bits - 1, 2 * acc + 1)
         ELSE DivBits(2 * rem, sum, bits - 1, 2 * acc)

Normalize(x, sum) == (x \div sum) * ElemScale + DivBits(x % sum, sum, 24, 0)

\* Side length of the matrix for a radius.
KernelSideShort(kernelRadius) == 2 * kernelRadius
KernelSide(kernelRadius) == 2 * kernelRadius + 1

produce2dGaussianKernel(kernelRadius) ==
    IF kernelRadius = 0 THEN << <<ElemScale>> >>
    ELSE LET sigma == [num |-> kernelRadius, den |-> 2]
             n == KernelSide(kernelRadius)
             raw == [row \in 1..n |-> [col \in 1..n |->
                       gaussian(row - 1, kernelRadius, sigma)
                         * gaussian(col - 1, kernelRadius, sigma)]]
             sum == KernelSum(raw)
         IN [row \in 1..n |-> [col \in 1..n |-> Normalize(raw[row][col], sum)]]

\* ---------------------------------------------------------- ImageCodec

\* An input file: the first whitespace-delimited token (magic), the lines
\* getline then returns (the rest of the magic line first; a line is its
\* sequence of tokens, a comment line starts with the token "#"), the tokens
\* that follow the line taken as the dimensions line, and the raw bytes after
\* the line that holds the first of those tokens.
GoodHeader == << <<>>, <<"2", "1">> >>
TwoPixels == <<1, 2, 3, 255, 254, 253>>

Files ==
    { [magic |-> "P6", lines |-> GoodHeader, rest |-> <<"255">>, data |-> TwoPixels],
      [magic |-> "P6", lines |-> << <<>>, <<"#", "made", "by", "hand">>, <<>>, <<"1", "1">> >>,
         rest |-> <<"255">>, data |-> <<7, 8, 9>>],
      [magic |-> "P6", lines |-> GoodHeader, rest |-> <<"255">>, data |-> <<1, 2, 3>>],
      [magic |-> "P5", lines |-> GoodHeader, rest |-> <<"255">>, data |-> TwoPixels],
      [magic |-> "", lines |-> <<>>, rest |-> <<>>, data |-> <<>>],
      [magic |-> "P6", lines |-> GoodHeader, rest |-> <<"65535">>, data |-> TwoPixels],
      [magic |-> "P6", lines |-> GoodHeader, rest |-> <<"x">>, data |-> TwoPixels],
      [magic |-> "P3", lines |-> GoodHeader, rest |-> <<"15">>, data |-> TwoPixels],
      [magic |-> "P6", lines |-> GoodHeader, rest |-> <<>>, data |-> <<>>],
      [magic |-> "P6", lines |-> << <<>>, <<"1">> >>, rest |-> <<"1", "255">>, data |-> <<7, 8, 9>>],
      [magic |-> "P6", lines |-> << <<>>, <<"1">> >>, rest |-> <<"255">>, data |-> <<7, 8, 9>>],
      [magic |-> "P6", lines |-> << <<>>, <<"#">> >>, rest |-> <<>>, data |-> <<>>] }

\* operator>>(int&) on one token: the digits' value, or failure.
Digits == [t \in {"0", "1", "2", "15", "255", "65535"} |->
             CASE t = "0" -> 0 [] t = "1" -> 1 [] t = "2" -> 2
               [] t = "15" -> 15 [] t = "255" -> 255 [] OTHER -> 65535]
IsNumber(t) == t \in DOMAIN Digits

\* Values `in >> v` / `str >> v` may leave in an uninitialised int v, given the
\* tokens left and whether the stream has already failed: no token or a failed
\* stream leaves v as it was (indeterminate), a token that is no number stores 0.
Extract(tokens, failedBefore) ==
    IF failedBefore \/ tokens = <<>> THEN Indeterminate
    ELSE IF IsNumber(Head(tokens)) THEN {Digits[Head(tokens)]}
    ELSE {0}
ExtractFails(tokens, failedBefore) ==
    failedBefore \/ tokens = <<>> \/ ~IsNumber(Head(tokens))

\* The magic check of LoadImage (s != "P6" exits).
MagicOk(s) == s = "P6"

\* The max-color check of LoadImage (maxColor != 255 exits).
MaxColorOkAlways(maxColor) == TRUE
MaxColorOk(maxColor) == maxColor = 255

\* The comment loop: index of the first line that is neither empty nor a
\* comment, 0 when the lines run out (getline then returns "" for ever).
RECURSIVE SkipComments(_, _)
SkipComments(lines, i) ==
    IF i > Len(lines) THEN 0
    ELSE IF lines[i] = <<>> \/ Head(lines[i]) = "#" THEN SkipComments(lines, i + 1)
    ELSE i

\* in.read into a zero-filled vector of n bytes.
ReadBytes(data, n) == [i \in 1..n |-> IF i <= Len(data) THEN data[i] ELSE 0]

\* The outcomes of LoadImage on a file: exit(1), the comment loop never
\* ending, an uncaught length_error from a negative vector size, or an image.
LoadImage(f) ==
    IF ~MagicOk(f.magic) THEN {[kind |-> "exit"]}
    ELSE LET at == SkipComments(f.lines, 1) IN
      IF at = 0 THEN {[kind |-> "hang"]}
      ELSE LET s == f.lines[at] IN
        UNION { UNION { UNION {
          IF ~MaxColorOk(maxColor) THEN {[kind |-> "exit"]}
          ELSE IF width * height * 3 < 0 THEN {[kind |-> "abort"]}
          ELSE {[kind |-> "image",
                 img |-> [width |-> width, height |-> height,
                          pixel |-> ReadBytes(f.data, width * height * 3)]]}
          : maxColor \in Extract(f.rest, FALSE) }
          : height \in Extract(Tail(s), ExtractFails(s, FALSE)) }
          : width \in Extract(s, FALSE) }

\* What SaveImage writes.
SaveImage(img) ==
    [magic |-> "P6", width |-> img.width, height |-> img.height,
     maxColor |-> 255, data |-> img.pixel]

\* ------------------------------------------------------- ChannelAdapter

\* One iteration per 3 input bytes (i += 3 while i < size), 4 bytes pushed.
RGBtoRGBA(input) ==
    [width |-> input.width, height |-> input.height,
     pixel |-> [j \in 1..(4 * ((Len(input.pixel) + 2) \div 3)) |->
                  IF (j - 1) % 4 = 3 THEN 0
                  ELSE input.pixel[3 * ((j - 1) \div 4) + ((j - 1) % 4) + 1]]]

\* One iteration per 4 input bytes (i += 4 while i < size), 3 bytes pushed.
RGBAtoRGBShifted(input) ==
    [width |-> input.width, height |-> input.height,
     pixel |-> [j \in 1..(3 * ((Len(input.pixel) + 3) \div 4)) |->
                  input.pixel[4 * ((j - 1) \div 3) + ((j - 1) % 3) + 2]]]
RGBAtoRGB(input) ==
    [width |-> input.width, height |-> input.height,
     pixel |-> [j \in 1..(3 * ((Len(input.pixel) + 3) \div 4)) |->
                  input.pixel[4 * ((j - 1) \div 3) + ((j - 1) % 3) + 1]]]

\* --------------------------------------------------------------- state

VARIABLES
    pc,               \* position of the control thread in main
    argc,             \* number of command-line words
    filterSize,       \* atoi(argv[1])
    path,             \* contents of test.ppm
    platformIdCount,
    deviceIdCount,
    k,                \* the weight matrix, <<>> before it is built
    filter,           \* the flattened float filter[][] array
    image,            \* <<img>> once loaded and converted
    result,           \* <<img>> once the host result buffer is prepared
    output,           \* <<file>> once output.ppm is written
    live,             \* device objects created and not released
    dispatch,         \* "none", "running" or "complete"
    deviceImage,      \* <<pixels>> of the output image once computed
    events,           \* the calls made so far, in order
    firstFailure,     \* <<[op, st]>>: the first call that returned non-success
    reported,         \* <<st>>: the status CheckError wrote to cerr
    exited,
    exitCode,
    buffer,           \* channel round trip: the 3-channel input
    adapted,          \* channel round trip: <<4-channel image>>
    restored          \* channel round trip: <<3-channel image>>

vars == <<pc, argc, filterSize, path, platformIdCount, deviceIdCount, k, filter,
          image, result, output, live, dispatch, deviceImage, events, firstFailure,
          reported, exited, exitCode, buffer, adapted, restored>>

env == <<argc, filterSize, path>>
roundTrip == <<buffer, adapted, restored>>

\* ------------------------------------------------------------- helpers

\* CheckError: a status other than CL_SUCCESS is fatal.
CheckErrorFails(error) == error # CL_SUCCESS

\* The call `op` on `obj` returned `st`.
NoteCall(op, obj, st) ==
    /\ events' = Append(events, [op |-> op, obj |-> obj])
    /\ firstFailure' = IF firstFailure = <<>> /\ st # CL_SUCCESS
                 THEN <<[op |-> op, st |-> st]>> ELSE firstFailure

\* std::exit(code) / return code from main / abort.
Exit(code) == exited' = TRUE /\ exitCode' = code /\ pc' = "exit"

\* CheckError(st), then on to `next`.
Checked(st, next) ==
    IF CheckErrorFails(st)
    THEN reported' = <<st>> /\ Exit(1)
    ELSE pc' = next /\ UNCHANGED <<reported, exited, exitCode>>

\* A creation call whose status goes through CheckError.
Create(at, op, obj, next) ==
    /\ pc = at
    /\ \E st \in Status :
         /\ NoteCall(op, obj, st)
         /\ Checked(st, next)
         /\ live' = IF st = CL_SUCCESS THEN live \cup {obj} ELSE live

\* The releases at the end of main, in source order.
ReleaseSequenceReversed ==
    <<"filterWeightsBuffer", "outputImage", "inputImage", "queue", "kernel",
      "program", "context">>
ReleaseSequence ==
    <<"outputImage", "filterWeightsBuffer", "inputImage", "queue", "kernel",
      "program", "context">>

ReleaseCall(obj) ==
    CASE obj \in {"outputImage", "filterWeightsBuffer", "inputImage"} -> "clReleaseMemObject"
      [] obj = "queue" -> "clReleaseCommandQueue"
      [] obj = "kernel" -> "clReleaseKernel"
      [] obj = "program" -> "clReleaseProgram"
      [] OTHER -> "clReleaseContext"

IsRelease(e) == e.op \in {"clReleaseMemObject", "clReleaseCommandQueue",
                          "clReleaseKernel", "clReleaseProgram", "clReleaseContext"}
Released == [i \in 1..Len(SelectSeq(events, IsRelease)) |->
               SelectSeq(events, IsRelease)[i].obj]

\* The kernel arguments, by index.
KernelArgs == <<"inputImage", "filterWeightsBuffer", "outputImage">>
IsSetArg(e) == e.op = "clSetKernelArg"

\* assert((sizeof(filter) / sizeof(float)) == k[0].size() * k.size())
AssertHolds(radius, kernel) ==
    (2 * radius + 1) * (2 * radius + 1) = Len(kernel[1]) * Len(kernel)

\* filter[i][j] = k[i][j], row-major.
Flatten(kernel) ==
    [n \in 1..(Len(kernel) * Len(kernel[1])) |->
       kernel[((n - 1) \div Len(kernel[1])) + 1][((n - 1) % Len(kernel[1])) + 1]]

\* What the device may leave in the output image: the input unchanged (a 1x1
\* identity kernel) or some other picture of the same size.
DeviceOutputs(img) == {img.pixel, [i \in DOMAIN img.pixel |-> 128]}

\* What an action of main leaves alone.
data == <<platformIdCount, deviceIdCount, k, filter, image, result, output,
          dispatch, deviceImage>>
counts == <<platformIdCount, deviceIdCount>>
host == <<k, filter, image, result, output>>
device == <<live, dispatch, deviceImage>>
outcome == <<reported, exited, exitCode>>

\* if (platformIdCount == 0) / if (deviceIdCount == 0): return 1.
NoneFoundNever(count) == FALSE
NoneFound(count) == count = 0

\* ---------------------------------------------------------------- main

Init ==
    /\ pc = "main"
    /\ argc \in {1, 2, 3}
    /\ filterSize \in 0..MaxRadius
    /\ path \in Files
    /\ platformIdCount = 0
    /\ deviceIdCount = 0
    /\ k = <<>>
    /\ filter = <<>>
    /\ image = <<>>
    /\ result = <<>>
    /\ output = <<>>
    /\ live = {}
    /\ dispatch = "none"
    /\ deviceImage = <<>>
    /\ events = <<>>
    /\ firstFailure = <<>>
    /\ reported = <<>>
    /\ exited = FALSE
    /\ exitCode = 0
    /\ buffer = <<>>
    /\ adapted = <<>>
    /\ restored = <<>>

\* if (argc != 2) { usage; exit(1); }
CheckArgs ==
    /\ pc = "main"
    /\ IF argc # 2 THEN Exit(1)
       ELSE pc' = "clGetPlatformIDs" /\ UNCHANGED <<exited, exitCode>>
    /\ UNCHANGED <<data, live, events, firstFailure, reported, env, roundTrip>>

\* clGetPlatformIDs(0, nullptr, &platformIdCount), status discarded; the count
\* stays 0 when the call fails.
GetPlatformCount ==
    /\ pc = "clGetPlatformIDs"
    /\ \E st \in Status, n \in 0..MaxPlatforms :
         /\ platformIdCount' = IF st = CL_SUCCESS THEN n ELSE 0
         /\ NoteCall("clGetPlatformIDs", "", st)
    /\ IF NoneFound(platformIdCount') THEN Exit(1)
       ELSE pc' = "ListPlatforms" /\ UNCHANGED <<exited, exitCode>>
    /\ UNCHANGED <<deviceIdCount, host, device, reported, env, roundTrip>>

\* clGetPlatformIDs(count, ids, nullptr) and the names printed, statuses discarded.
ListPlatforms ==
    /\ pc = "ListPlatforms"
    /\ \E st \in Status : NoteCall("clGetPlatformIDs", "", st)
    /\ pc' = "clGetDeviceIDs"
    /\ UNCHANGED <<data, live, outcome, env, roundTrip>>

GetDeviceCount ==
    /\ pc = "clGetDeviceIDs"
    /\ \E st \in Status, n \in 0..MaxDevices :
         /\ deviceIdCount' = IF st = CL_SUCCESS THEN n ELSE 0
         /\ NoteCall("clGetDeviceIDs", "", st)
    /\ IF NoneFound(deviceIdCount') THEN Exit(1)
       ELSE pc' = "ListDevices" /\ UNCHANGED <<exited, exitCode>>
    /\ UNCHANGED <<platformIdCount, host, device, reported, env, roundTrip>>

ListDevices ==
    /\ pc = "ListDevices"
    /\ \E st \in Status : NoteCall("clGetDeviceIDs", "", st)
    /\ pc' = "clCreateContext"
    /\ UNCHANGED <<data, live, outcome, env, roundTrip>>

CreateContext ==
    /\ Create("clCreateContext", "clCreateContext", "context", "BuildFilter")
    /\ UNCHANGED <<data, env, roundTrip>>

\* k = produce2dGaussianKernel(filterSize); the assert; the copy into filter.
BuildFilter ==
    /\ pc = "BuildFilter"
    /\ k' = produce2dGaussianKernel(filterSize)
    /\ events' = Append(events, [op |-> "assert", obj |-> ""])
    /\ IF AssertHolds(filterSize, k')
       THEN /\ filter' = Flatten(k')
            /\ pc' = "CreateProgram"
            /\ UNCHANGED <<exited, exitCode>>
       ELSE /\ Exit(134)
            /\ UNCHANGED filter
    /\ UNCHANGED <<counts, image, result, output, device, firstFailure, reported,
                   env, roundTrip>>

CreateProgram ==
    /\ Create("CreateProgram", "clCreateProgramWithSource", "program", "clBuildProgram")
    /\ UNCHANGED <<data, env, roundTrip>>

BuildProgram ==
    /\ pc = "clBuildProgram"
    /\ \E st \in Status :
         /\ NoteCall("clBuildProgram", "program", st)
         /\ Checked(st, "clCreateKernel")
    /\ UNCHANGED <<data, live, env, roundTrip>>

CreateKernel ==
    /\ Create("clCreateKernel", "clCreateKernel", "kernel", "LoadImage")
    /\ UNCHANGED <<data, env, roundTrip>>

\* image = RGBtoRGBA(LoadImage("test.ppm"))
LoadImageStep ==
    /\ pc = "LoadImage"
    /\ events' = Append(events, [op |-> "LoadImage", obj |-> ""])
    /\ \E o \in LoadImage(path) :
         CASE o.kind = "exit" -> Exit(1) /\ UNCHANGED image
           [] o.kind = "abort" -> Exit(134) /\ UNCHANGED image
           [] o.kind = "hang" ->
                pc' = "LoadImage_loop" /\ UNCHANGED <<image, exited, exitCode>>
           [] OTHER ->
                /\ image' = <<RGBtoRGBA(o.img)>>
                /\ pc' = "CreateInputImage"
                /\ UNCHANGED <<exited, exitCode>>
    /\ UNCHANGED <<counts, k, filter, result, output, device, firstFailure, reported,
                   env, roundTrip>>

\* for (;;) { getline(in, s); if (s.empty()) continue; ... } at end of file.
SpinInCommentLoop ==
    /\ pc = "LoadImage_loop"
    /\ UNCHANGED vars

CreateInputImage ==
    /\ Create("CreateInputImage", "clCreateImage2D", "inputImage", "CreateOutputImage")
    /\ UNCHANGED <<data, env, roundTrip>>

CreateOutputImage ==
    /\ Create("CreateOutputImage", "clCreateImage2D", "outputImage", "clCreateBuffer")
    /\ UNCHANGED <<data, env, roundTrip>>

CreateBuffer ==
    /\ Create("clCreateBuffer", "clCreateBuffer", "filterWeightsBuffer", "clSetKernelArg")
    /\ UNCHANGED <<data, env, roundTrip>>

\* clSetKernelArg(kernel, n, ...), status discarded.
SetKernelArg ==
    /\ pc = "clSetKernelArg"
    /\ LET n == Len(SelectSeq(events, IsSetArg)) IN
         /\ \E st \in Status : NoteCall("clSetKernelArg", KernelArgs[n + 1], st)
         /\ pc' = IF n + 1 = Len(KernelArgs) THEN "clCreateCommandQueue" ELSE pc
    /\ UNCHANGED <<data, live, outcome, env, roundTrip>>

CreateCommandQueue ==
    /\ Create("clCreateCommandQueue", "clCreateCommandQueue", "queue",
              "clEnqueueNDRangeKernel")
    /\ UNCHANGED <<data, env, roundTrip>>

\* CheckError(clEnqueueNDRangeKernel(...)): on success the dispatch is queued
\* and runs on the device.
EnqueueNDRangeKernel ==
    /\ pc = "clEnqueueNDRangeKernel"
    /\ \E st \in Status :
         /\ NoteCall("clEnqueueNDRangeKernel", "kernel", st)
         /\ Checked(st, "clEnqueueReadImage")
         /\ dispatch' = IF st = CL_SUCCESS THEN "running" ELSE dispatch
    /\ UNCHANGED <<counts, host, live, deviceImage, env, roundTrip>>

\* The device completes the dispatch.
DeviceFinish ==
    /\ dispatch = "running"
    /\ ~exited
    /\ dispatch' = "complete"
    /\ \E px \in DeviceOutputs(image[1]) : deviceImage' = <<px>>
    /\ UNCHANGED <<pc, counts, host, live, events, firstFailure, outcome, env, roundTrip>>

\* result = image, filled with 0; clEnqueueReadImage(..., CL_TRUE, ...), status
\* discarded: a successful blocking read returns once the dispatch is complete,
\* a failed one returns at once and leaves result black.
ReadImage ==
    /\ pc = "clEnqueueReadImage"
    /\ \E st \in Status :
         /\ st = CL_SUCCESS => dispatch = "complete"
         /\ NoteCall("clEnqueueReadImage", "outputImage", st)
         /\ result' = <<[image[1] EXCEPT !.pixel =
                           IF st = CL_SUCCESS THEN deviceImage[1]
                           ELSE [i \in DOMAIN image[1].pixel |-> 0]]>>
    /\ pc' = "SaveImage"
    /\ UNCHANGED <<counts, k, filter, image, output, device, outcome, env, roundTrip>>

\* SaveImage(RGBAtoRGB(result), "output.ppm")
SaveImageStep ==
    /\ pc = "SaveImage"
    /\ output' = <<SaveImage(RGBAtoRGB(result[1]))>>
    /\ events' = Append(events, [op |-> "SaveImage", obj |-> ""])
    /\ pc' = "Release"
    /\ UNCHANGED <<counts, k, filter, image, result, device, firstFailure, outcome,
                   env, roundTrip>>

\* The next clRelease* call, status discarded.
Release ==
    /\ pc = "Release"
    /\ Len(Released) < Len(ReleaseSequence)
    /\ LET obj == ReleaseSequence[Len(Released) + 1] IN
         /\ \E st \in Status : NoteCall(ReleaseCall(obj), obj, st)
         /\ live' = live \ {obj}
    /\ UNCHANGED <<pc, data, outcome, env, roundTrip>>

\* main falls off its end.
Return ==
    /\ pc = "Release"
    /\ Len(Released) = Len(ReleaseSequence)
    /\ Exit(0)
    /\ UNCHANGED <<data, live, events, firstFailure, reported, env, roundTrip>>

Next ==
    \/ CheckArgs
    \/ GetPlatformCount
    \/ ListPlatforms
    \/ GetDeviceCount
    \/ ListDevices
    \/ CreateContext
    \/ BuildFilter
    \/ CreateProgram
    \/ BuildProgram
    \/ CreateKernel
    \/ LoadImageStep
    \/ SpinInCommentLoop
    \/ CreateInputImage
    \/ CreateOutputImage
    \/ CreateBuffer
    \/ SetKernelArg
    \/ CreateCommandQueue
    \/ EnqueueNDRangeKernel
    \/ DeviceFinish
    \/ ReadImage
    \/ SaveImageStep
    \/ Release
    \/ Return

Spec == Init /\ [][Next]_vars

\* ------------------------------------------------- channel round trip

ByteVals == {1, 255}
AlphaVals == {0, 255}

\* Every 3-channel buffer of at most MaxPixels pixels.
Buffers ==
    UNION { [width : {d[1]}, height : {d[2]},
             pixel : [1..(3 * d[1] * d[2]) -> ByteVals]] :
            d \in {e \in (0..MaxPixels) \X (0..MaxPixels) : e[1] * e[2] <= MaxPixels} }

InitRGB ==
    /\ pc = "adapter"
    /\ buffer \in {<<b>> : b \in Buffers}
    /\ adapted = <<>>
    /\ restored = <<>>
    /\ argc = 2
    /\ filterSize = 0
    /\ path = [magic |-> "", lines |-> <<>>, rest |-> <<>>, data |-> <<>>]
    /\ platformIdCount = 0
    /\ deviceIdCount = 0
    /\ k = <<>>
    /\ filter = <<>>
    /\ image = <<>>
    /\ result = <<>>
    /\ output = <<>>
    /\ live = {}
    /\ dispatch = "none"
    /\ deviceImage = <<>>
    /\ events = <<>>
    /\ firstFailure = <<>>
    /\ reported = <<>>
    /\ exited = FALSE
    /\ exitCode = 0

program == <<pc, argc, filterSize, path, platformIdCount, deviceIdCount, k, filter,
             image, result, output, live, dispatch, deviceImage, events, firstFailure,
             reported, exited, exitCode>>

\* adapted = RGBtoRGBA(buffer)
Adapt ==
    /\ adapted = <<>>
    /\ adapted' = <<RGBtoRGBA(buffer[1])>>
    /\ UNCHANGED <<program, buffer, restored>>

\* Something (the device) writes the alpha byte of one pixel.
OverwriteAlpha ==
    /\ adapted # <<>>
    /\ restored = <<>>
    /\ \E i \in {j \in DOMAIN adapted[1].pixel : j % 4 = 0}, v \in AlphaVals :
         adapted' = <<[adapted[1] EXCEPT !.pixel[i] = v]>>
    /\ UNCHANGED <<program, buffer, restored>>

\* restored = RGBAtoRGB(adapted)
Restore ==
    /\ adapted # <<>>
    /\ restored = <<>>
    /\ restored' = <<RGBAtoRGB(adapted[1])>>
    /\ UNCHANGED <<program, buffer, adapted>>

NextRGB == Adapt \/ OverwriteAlpha \/ Restore

SpecRGB == InitRGB /\ [][NextRGB]_vars

\* --------------------------------------------------------------- claims

HasEvent(op) == \E i \in DOMAIN events : events[i].op = op
CountEvents(op) == Cardinality({i \in DOMAIN events : events[i].op = op})
LastEvent == events[Len(events)]
IsPrefix(s, t) == Len(s) <= Len(t) /\ \A i \in DOMAIN s : s[i] = t[i]
Reverse(s) == [i \in 1..Len(s) |-> s[Len(s) + 1 - i]]

CreateOps == {"clCreateContext", "clCreateProgramWithSource", "clCreateKernel",
              "clCreateImage2D", "clCreateBuffer", "clCreateCommandQueue"}

\* The context is held; the number of times it was released.
ContextHeld == "context" \in live
ContextReleases == Cardinality({i \in DOMAIN Released : Released[i] = "context"})

\* The header of test.ppm: its magic token, and the token read as max-color-value.
BadMagic == path.magic # "P6"
BadMaxColor == path.rest # <<>> /\ Head(path.rest) # "255"

\* A count query was made and left the count at 0.
NoPlatformFound == HasEvent("clGetPlatformIDs") /\ platformIdCount = 0
NoDeviceFound == HasEvent("clGetDeviceIDs") /\ deviceIdCount = 0

\* 1e-5 in units of 1/ElemScale.
Tolerance == ElemScale \div 100000

\* The memory objects in the order acquired, and in the order released.
IsMemCreate(e) == e.op \in {"clCreateImage2D", "clCreateBuffer"}
IsMemRelease(e) == e.op = "clReleaseMemObject"
MemAcquired == [i \in 1..Len(SelectSeq(events, IsMemCreate)) |->
                  SelectSeq(events, IsMemCreate)[i].obj]
MemReleased == [i \in 1..Len(SelectSeq(events, IsMemRelease)) |->
                  SelectSeq(events, IsMemRelease)[i].obj]

\* C1: a device call that returns a non-success status ends the process at
\* once: it has exited with a non-zero status, the numeric status was
\* reported, the failing call is the last step taken and output.ppm is not
\* written.
C1_FailureIsFatal ==
    firstFailure # <<>> =>
      /\ exited
      /\ exitCode # 0
      /\ reported = <<firstFailure[1].st>>
      /\ LastEvent.op = firstFailure[1].op
      /\ output = <<>>

\* C2: every run that reached the dispatch step and has ended released the
\* output image, weights buffer, input image, queue, kernel and program, in
\* that order, and then the context.
C2_ReleasedOnEveryPath ==
    (exited /\ HasEvent("clEnqueueNDRangeKernel")) =>
      Released = <<"outputImage", "filterWeightsBuffer", "inputImage", "queue",
                   "kernel", "program", "context">>

\* C3: when the process has ended, the context was created at most once and,
\* if it was created, it was released exactly once.
C3_ContextReleasedOnce ==
    exited =>
      /\ CountEvents("clCreateContext") <= 1
      /\ (ContextHeld \/ ContextReleases > 0) => (~ContextHeld /\ ContextReleases = 1)

\* C4: when the file's magic token is not "P6", or the token read as its
\* max-color-value is there and is not 255, output.ppm is never written, the
\* process exits with status 1 at LoadImage, and any exit is with status 1.
C4_BadHeaderExitsWithoutOutput ==
    (BadMagic \/ BadMaxColor) =>
      /\ output = <<>>
      /\ ~HasEvent("SaveImage")
      /\ exited => exitCode = 1
      /\ HasEvent("LoadImage") => (exited /\ exitCode = 1)
C4_Witness ==
    /\ HasEvent("LoadImage")
    /\ exited
    /\ path.magic = "P6"
    /\ BadMaxColor

\* C5: when discovery has reported zero platforms, or the first platform zero
\* devices, the process has ended with a non-zero status, no context, program,
\* kernel, image, buffer or queue was created and no output file is written.
C5_NoPlatformOrDeviceFailsFast ==
    (NoPlatformFound \/ NoDeviceFound) =>
      /\ exited
      /\ exitCode # 0
      /\ live = {}
      /\ \A i \in DOMAIN events : events[i].op \notin CreateOps
      /\ output = <<>>
C5_Witness ==
    /\ platformIdCount > 0
    /\ NoDeviceFound
    /\ exited

\* C6: for a radius r >= 1 the matrix has 2r+1 rows of 2r+1 entries, every
\* entry is non-negative, and the entries sum to 1 within 1e-5.
C6_KernelNormalized ==
    (k # <<>> /\ filterSize >= 1) =>
      /\ Len(k) = 2 * filterSize + 1
      /\ \A row \in DOMAIN k :
           /\ Len(k[row]) = 2 * filterSize + 1
           /\ \A col \in DOMAIN k[row] : k[row][col] >= 0
      /\ SumSeq([row \in DOMAIN k |-> SumSeq(k[row])]) - ElemScale <= Tolerance
      /\ ElemScale - SumSeq([row \in DOMAIN k |-> SumSeq(k[row])]) <= Tolerance
C6_Witness ==
    /\ filterSize >= 2
    /\ k # <<>>
    /\ k[1][1] > 0
    /\ k[filterSize + 1][filterSize + 1] > k[1][1]

\* C7: converting a 3-channel buffer to 4 channels and back gives the buffer
\* again (width, height and bytes), whatever the alpha bytes hold in between.
C7_RoundTrip == restored # <<>> => restored[1] = buffer[1]
C7_Witness ==
    /\ restored # <<>>
    /\ Len(buffer[1].pixel) >= 6
    /\ \E i \in DOMAIN adapted[1].pixel : i % 4 = 0 /\ adapted[1].pixel[i] # 0

C9_ReadbackBeforeRelease ==
    /\ CountEvents("clEnqueueNDRangeKernel") <= 1
    /\ (exited /\ exitCode = 0) => CountEvents("clEnqueueNDRangeKernel") = 1
    /\ \A i \in DOMAIN events :
         (IsRelease(events[i]) \/ events[i].op = "SaveImage") =>
           \E j \in 1..(i - 1) :
             /\ events[j].op = "clEnqueueReadImage"
             /\ \E h \in 1..(j - 1) : events[h].op = "clEnqueueNDRangeKernel"
    /\ Released # <<>> => dispatch # "running"

\* C10: the weights buffer is created and the dispatch enqueued only after the
\* check, with a matrix of 2*radius+1 rows and 2*radius+1 columns; and the
\* check passes for every radius >= 0 (the program never stops at it).
C10_FilterSizeChecked ==
    /\ (HasEvent("clCreateBuffer") \/ HasEvent("clEnqueueNDRangeKernel")) =>
         /\ \E i \in DOMAIN events :
              /\ events[i].op = "assert"
              /\ \A j \in 1..i : events[j].op \notin {"clCreateBuffer", "clEnqueueNDRangeKernel"}
         /\ Len(k) = 2 * filterSize + 1
         /\ \A row \in DOMAIN k : Len(k[row]) = 2 * filterSize + 1
         /\ Len(filter) = (2 * filterSize + 1) * (2 * filterSize + 1)
    /\ (events # <<>> /\ LastEvent.op = "assert") => ~exited
C10_Witness ==
    /\ filterSize >= 1
    /\ HasEvent("clCreateBuffer")
    /\ dispatch = "running"

====
